---------------------------- MODULE Spec2Model ----------------------------
(***************************************************************************)
(* A model of AdbOperator (packages/operators/adb/src/index.ts): the       *)
(* screenshot pipeline and the action dispatcher, together with the host   *)
(* working directory and the device they act on.                           *)
(*                                                                         *)
(* screenshot() is an async function: it runs synchronously up to each     *)
(* await, so one action models the code between two awaits.  Several       *)
(* screenshot() calls may be in progress on one instance; they share       *)
(* this.currentRound, the host directory and the device.                   *)
(***************************************************************************)
EXTENDS Integers, Sequences, FiniteSets, TLC

VARIABLES
    deviceId,       \* this.deviceId
    currentRound,   \* this.currentRound
    shots,          \* the screenshot() calls in progress, one slot per caller
    exec,           \* the execute() call in progress or last finished
    hostFs,         \* the host working directory: local path -> file content
    deviceFile,     \* content of /sdcard/uitars_screenshot.png on the device
    started         \* history: number of screenshot() calls started

vars == <<deviceId, currentRound, shots, exec, hostFs, deviceFile, started>>

----------------------------------------------------------------------------
(* Bounds *)

MaxRound == 2      \* screenshot() calls started in one behaviour
MaxLen == 3        \* length of action_inputs.content

\* Two activation records: screenshot() calls that may be in progress at once.
Callers == {1, 2}
Rounds == 1..MaxRound
DeviceIds == {"emulator-5554"}

----------------------------------------------------------------------------
(* Files and images *)

\* A file content is an image <<tag, n>>: <<"cap", k>> is the bitmap the k-th
\* screenshot() call captured, <<"old", r>> a file left in the working
\* directory before the operator was constructed, <<"dev", 0>> a file left on
\* the device.  NoFile is the absence of the file.
NoFile == <<>>
NoPath == <<>>
NoResult == <<>>

RemotePath == "/sdcard/uitars_screenshot.png"

\* One file name for every round.
FixedLocalPath(round) == <<"./uitars_screenshot_", 1>>

\* `./uitars_screenshot_${this.currentRound}.png`
LocalPath(round) == <<"./uitars_screenshot_", round>>

\* 'uitars_screenshot.png', the path readFileSync is given
ReadPath == <<"uitars_screenshot", 0>>

HostPaths == {LocalPath(r) : r \in Rounds} \cup {ReadPath}

\* The file an operator of an earlier process left at path p.
OldFile(p) == <<"old", p[2]>>

\* image.bitmap.width, image.bitmap.height of a decoded file, and the base64
\* text of a file's bytes: each determined by, and determining, the content.
BitmapWidth(img) == <<"width", img>>
BitmapHeight(img) == <<"height", img>>
Base64(img) == <<"base64", img>>

\* A command line that leaves out the device.
CmdNoDevice(op, dev, args) == [op |-> op, dev |-> "", args |-> args]

\* A command line handed to commandWithTimeout.
Cmd(op, dev, args) == [op |-> op, dev |-> dev, args |-> args]

\* commandWithTimeout(cmd): the promise of execa's command, handed on as it
\* is.  It resolves ("ok") when the command succeeds and rejects ("fail")
\* when the command fails or runs into the timeout.
CommandWithTimeout(ok) == IF ok THEN "ok" ELSE "fail"

----------------------------------------------------------------------------
(* screenshot() *)

IdleShot ==
    [pc |-> "idle", k |-> 0, round |-> 0, cap |-> "none", pull |-> "none",
     cmds |-> <<>>, pullPath |-> NoPath, readPath |-> NoPath,
     decoded |-> NoFile, result |-> NoResult]

\* this.currentRound++
IncRound(r) == r + 1

\* The capture command not awaited: the pull command is issued with it.
ScreenshotStartNoAwait(c) ==
    /\ shots[c].pc = "idle"
    /\ \A d \in Callers : d < c => shots[d].pc # "idle"
    /\ started < MaxRound
    /\ currentRound' = IncRound(currentRound)
    /\ started' = started + 1
    /\ shots' = [shots EXCEPT ![c] =
            [IdleShot EXCEPT !.pc = "screencap", !.k = started + 1,
                             !.round = IncRound(currentRound),
                             !.pullPath = LocalPath(IncRound(currentRound)),
                             !.cmds = <<Cmd("screencap", deviceId, <<RemotePath>>),
                                        Cmd("pull", deviceId,
                                            <<RemotePath,
                                              LocalPath(IncRound(currentRound))>>)>>]]
    /\ UNCHANGED <<deviceId, exec, hostFs, deviceFile>>

\* Lines 65-74: the call increments the round counter and issues the
\* device-side capture command, then awaits it.
ScreenshotStart(c) ==
    /\ shots[c].pc = "idle"
    /\ \A d \in Callers : d < c => shots[d].pc # "idle"
    /\ started < MaxRound
    /\ currentRound' = IncRound(currentRound)
    /\ started' = started + 1
    /\ shots' = [shots EXCEPT ![c] =
            [IdleShot EXCEPT !.pc = "screencap", !.k = started + 1,
                             !.round = IncRound(currentRound),
                             !.cmds = <<Cmd("screencap", deviceId, <<RemotePath>>)>>]]
    /\ UNCHANGED <<deviceId, exec, hostFs, deviceFile>>

\* A capture step whose rejection is not caught: the call fails there and
\* issues no pull command.
ScreencapSettleUncaught(c, ok) ==
    /\ shots[c].pc = "screencap"
    /\ deviceFile' = IF ok THEN <<"cap", shots[c].k>> ELSE deviceFile
    /\ shots' = IF ok
                THEN [shots EXCEPT ![c].pc = "pull",
                                   ![c].cap = "ok",
                                   ![c].pullPath = <<"./uitars_screenshot_", currentRound>>,
                                   ![c].cmds = Append(@,
                                       [op |-> "pull", dev |-> deviceId,
                                        args |-> <<"/sdcard/uitars_screenshot.png",
                                                   <<"./uitars_screenshot_", currentRound>>>>])]
                ELSE [shots EXCEPT ![c].pc = "failed", ![c].cap = "fail"]
    /\ UNCHANGED <<deviceId, currentRound, exec, hostFs, started>>

\* Lines 70-82: the capture command settles (a rejection is caught and
\* replaced by an empty stdout); the call issues the pull command, naming
\* the local path by the value this.currentRound has now.
ScreencapSettle(c, ok) ==
    /\ shots[c].pc = "screencap"
    /\ deviceFile' = IF ok THEN <<"cap", shots[c].k>> ELSE deviceFile
    /\ shots' = [shots EXCEPT ![c].pc = "pull",
                              ![c].cap = CommandWithTimeout(ok),
                              ![c].pullPath = LocalPath(currentRound),
                              ![c].cmds = Append(@,
                                  Cmd("pull", deviceId,
                                      <<RemotePath, LocalPath(currentRound)>>))]
    /\ UNCHANGED <<deviceId, currentRound, exec, hostFs, started>>

\* Lines 78-88: the pull command settles (a rejection is caught); when it
\* succeeded the device file has been copied to the local path the command
\* named.  The call then starts Jimp.read on the path named by the value
\* this.currentRound has now.
PullSettle(c, ok) ==
    /\ shots[c].pc = "pull"
    /\ ok => deviceFile # NoFile
    /\ hostFs' = IF ok
                 THEN [hostFs EXCEPT ![shots[c].pullPath] = deviceFile]
                 ELSE hostFs
    /\ shots' = [shots EXCEPT ![c].pc = "decode",
                              ![c].pull = CommandWithTimeout(ok),
                              ![c].readPath = LocalPath(currentRound)]
    /\ UNCHANGED <<deviceId, currentRound, exec, deviceFile, started>>

\* A catch block that takes the round back.
RoundRolledBack(round) == round - 1

\* A catch block that lets go of the device.
DeviceDropped(dev) == "none"

\* Lines 106-109 and 192-195: the catch blocks log the error and rethrow it;
\* this.currentRound and this.deviceId are as they were.
RoundAfterError(round) == round
DeviceAfterError(dev) == dev

\* Lines 86-109: Jimp.read settles.  A missing file rejects, and the catch
\* block rethrows.  Otherwise the call takes the dimensions of the decoded
\* bitmap, reads 'uitars_screenshot.png' synchronously (a missing file
\* throws) and returns.
DecodeSettle(c) ==
    /\ shots[c].pc = "decode"
    /\ LET image == hostFs[shots[c].readPath]
        imageBuffer == hostFs[ReadPath]
       IN  shots' = [shots EXCEPT ![c] =
             IF image = NoFile
             THEN [@ EXCEPT !.pc = "failed"]
             ELSE IF imageBuffer = NoFile
             THEN [@ EXCEPT !.pc = "failed", !.decoded = image]
             ELSE [@ EXCEPT !.pc = "done", !.decoded = image,
                            !.result = [base64 |-> Base64(imageBuffer),
                                        width |-> BitmapWidth(image),
                                        height |-> BitmapHeight(image),
                                        scaleFactor |-> 1]]]
    /\ LET thrown == hostFs[shots[c].readPath] = NoFile \/ hostFs[ReadPath] = NoFile
       IN  /\ currentRound' = IF thrown THEN RoundAfterError(currentRound)
                                         ELSE currentRound
           /\ deviceId' = IF thrown THEN DeviceAfterError(deviceId) ELSE deviceId
    /\ UNCHANGED <<exec, hostFs, deviceFile, started>>

\* The caller has received the result or the error; its slot is free again.
ScreenshotReturn(c) ==
    /\ shots[c].pc \in {"done", "failed"}
    /\ shots' = [shots EXCEPT ![c] = IdleShot]
    /\ UNCHANGED <<deviceId, currentRound, exec, hostFs, deviceFile, started>>

----------------------------------------------------------------------------
(* execute() *)

\* A field of action_inputs that is not there.
Undefined == <<"undefined">>

\* The characters of action_inputs.content: a letter, the three characters
\* the escaping is about, and white space.
Chars == {"a", "'", "\"", "\\", " "}
Strings == UNION {[1..n -> Chars] : n \in 0..MaxLen}
Contents == Strings \cup {Undefined}

\* A box string, by what it holds: nothing (''), text that is no coordinate
\* list, one normalized point, or two (the corners of a box).  Normalized
\* coordinates are written in thousandths.  Each coordinate of a
\* BoxCoordinate is nullable on its own, so there are also strings of which
\* only the x or only the y resolves.
EmptyBox == [kind |-> "empty", nums |-> <<>>]
UndefinedBox == [kind |-> "undefined", nums |-> <<>>]
MalformedBox == [kind |-> "malformed", nums |-> <<>>]
PointBox(x, y) == [kind |-> "point", nums |-> <<x, y>>]
CornerBox(x1, y1, x2, y2) == [kind |-> "box", nums |-> <<x1, y1, x2, y2>>]
OnlyXBox(x) == [kind |-> "x_only", nums |-> <<x>>]
OnlyYBox(y) == [kind |-> "y_only", nums |-> <<y>>]
Boxes ==
    {UndefinedBox, EmptyBox, MalformedBox, OnlyXBox(500), OnlyYBox(500),
     PointBox(500, 500), PointBox(333, 667), CornerBox(500, 250, 501, 1000)}

Screens == {<<1000, 2000>>, <<1080, 1920>>}
ActionTypes == {"click", "type", "swipe", "scroll"}

\* A resolved coordinate is a fraction <<numerator, denominator>> of pixels;
\* Null is null.
Null == <<>>
Thousand == 1000

\* parseBoxToScreenCoords({boxStr, screenWidth, screenHeight}): the centre of
\* the box scaled to the screen, (null, null) for an empty or malformed string.
ParseBoxToScreenCoords(boxStr, screenWidth, screenHeight) ==
    CASE boxStr.kind = "point" ->
            [x |-> <<boxStr.nums[1] * screenWidth, Thousand>>,
             y |-> <<boxStr.nums[2] * screenHeight, Thousand>>]
      [] boxStr.kind = "box" ->
            [x |-> <<(boxStr.nums[1] + boxStr.nums[3]) * screenWidth, 2 * Thousand>>,
             y |-> <<(boxStr.nums[2] + boxStr.nums[4]) * screenHeight, 2 * Thousand>>]
      [] boxStr.kind = "x_only" ->
            [x |-> <<boxStr.nums[1] * screenWidth, Thousand>>, y |-> Null]
      [] boxStr.kind = "y_only" ->
            [x |-> Null, y |-> <<boxStr.nums[1] * screenHeight, Thousand>>]
      [] OTHER -> [x |-> Null, y |-> Null]

\* Truncation in place of rounding.
MathTrunc(v) == IF v = Null THEN 0 ELSE v[1] \div v[2]

\* Math.round: the nearest integer, halves upward; Math.round(null) is 0.
MathRound(v) == IF v = Null THEN 0 ELSE (2 * v[1] + v[2]) \div (2 * v[2])

\* String.prototype.trim
RECURSIVE TrimStart(_)
TrimStart(s) == IF s # <<>> /\ Head(s) = " " THEN TrimStart(Tail(s)) ELSE s
RECURSIVE TrimEnd(_)
TrimEnd(s) ==
    IF s # <<>> /\ s[Len(s)] = " " THEN TrimEnd(SubSeq(s, 1, Len(s) - 1)) ELSE s
Trim(s) == TrimEnd(TrimStart(s))

\* The content as it is, not trimmed.
UntrimmedContent(content) == content

\* action_inputs.content?.trim()
TrimmedContent(content) == IF content = Undefined THEN Undefined ELSE Trim(content)

\* The replacement without the g flag: the first match only.
RECURSIVE EscapeFirst(_)
EscapeFirst(s) ==
    IF s = <<>> THEN <<>>
    ELSE IF Head(s) \in {"'", "\"", "\\"} THEN <<"\\", Head(s)>> \o Tail(s)
    ELSE <<Head(s)>> \o EscapeFirst(Tail(s))

\* content.replace(/(['"\\])/g, '\\$1')
RECURSIVE EscapeContent(_)
EscapeContent(s) ==
    IF s = <<>> THEN <<>>
    ELSE (IF Head(s) \in {"'", "\"", "\\"} THEN <<"\\", Head(s)>> ELSE <<Head(s)>>)
         \o EscapeContent(Tail(s))

\* action_inputs?.start_box || ''
StartBoxStr(start_box) == IF start_box.kind = "undefined" THEN EmptyBox ELSE start_box

\* if (end_box)
Truthy(box) == box.kind \notin {"undefined", "empty"}

\* if (content)
NonEmpty(content) == content # Undefined /\ content # <<>>

\* if (startX !== null && startY !== null)
Resolved(pt) == pt.x # Null /\ pt.y # Null

\* The requests: every content for type, every pair of boxes on every screen
\* for the others.
Params ==
    [action_type : {"type"}, start_box : {UndefinedBox, MalformedBox, PointBox(333, 667)},
     end_box : {UndefinedBox}, content : Contents, screen : {<<1080, 1920>>}]
    \cup
    [action_type : ActionTypes \ {"type"}, start_box : Boxes, end_box : Boxes,
     content : {Undefined}, screen : Screens]

NoParams ==
    [action_type |-> "none", start_box |-> UndefinedBox, end_box |-> UndefinedBox,
     content |-> Undefined, screen |-> <<0, 0>>]

IdleExec ==
    [pc |-> "idle", params |-> NoParams, cmds |-> <<>>, out |-> "none", at |-> 0]

\* Lines 132-136: the start point, resolved before the switch.
StartPoint(p) ==
    ParseBoxToScreenCoords(StartBoxStr(p.start_box), p.screen[1], p.screen[2])

\* Lines 149-155: case 'click'
ClickCmds(p, dev) ==
    IF Resolved(StartPoint(p))
    THEN <<Cmd("tap", dev, <<MathRound(StartPoint(p).x), MathRound(StartPoint(p).y)>>)>>
    ELSE <<>>

\* Lines 156-165: case 'type'
TypeCmds(p, dev) ==
    IF NonEmpty(TrimmedContent(p.content))
    THEN <<Cmd("text", dev, <<EscapeContent(TrimmedContent(p.content))>>)>>
    ELSE <<>>

\* A guard that forgets the end point.
SwipeGuardStartOnly(start, end) == Resolved(start)

\* Lines 175-180: all four coordinates are non-null.
SwipeGuard(start, end) == Resolved(start) /\ Resolved(end)

\* Lines 167-186: case 'swipe'
SwipeCmds(p, dev) ==
    IF Truthy(p.end_box)
    THEN LET end == ParseBoxToScreenCoords(p.end_box, p.screen[1], p.screen[2])
         IN  IF SwipeGuard(StartPoint(p), end)
             THEN <<Cmd("swipe", dev,
                        <<MathRound(StartPoint(p).x), MathRound(StartPoint(p).y),
                          MathRound(end.x), MathRound(end.y), 300>>)>>
             ELSE <<>>
    ELSE <<>>

\* A switch with no default, the last case taking what no case names.
DefaultFallsToClick(p, dev) ==
    <<Cmd("tap", dev, <<MathRound(StartPoint(p).x), MathRound(StartPoint(p).y)>>)>>

\* Lines 188-190: default, a warning and no command.
DefaultCmds(p, dev) == <<>>

\* Lines 148-191: the commands the switch issues for the request.
Dispatch(p, dev) ==
    CASE p.action_type = "click" -> ClickCmds(p, dev)
      [] p.action_type = "type" -> TypeCmds(p, dev)
      [] p.action_type = "swipe" -> SwipeCmds(p, dev)
      [] OTHER -> DefaultCmds(p, dev)

\* Lines 112-191: execute(params) up to the await of the command it issues,
\* or to its return when it issues none.
ExecuteStart(p) ==
    /\ exec.pc = "idle"
    /\ exec' = [pc |-> IF Dispatch(p, deviceId) = <<>> THEN "returned" ELSE "await",
                params |-> p,
                cmds |-> Dispatch(p, deviceId),
                out |-> "none",
                at |-> started]
    /\ UNCHANGED <<deviceId, currentRound, shots, hostFs, deviceFile, started>>

\* An await whose rejection is caught and dropped.
AwaitCommandCaught(out) == "returned"

\* Lines 151-153, 192-195: await commandWithTimeout(...) inside the try: a
\* resolution goes on to the break and the return, a rejection to the catch
\* block, which logs and rethrows.
AwaitCommand(out) == IF out = "ok" THEN "returned" ELSE "failed"

\* Lines 151-195: the command settles.  commandWithTimeout is awaited with no
\* catch of its own, so a rejection reaches the catch block, which rethrows.
ExecuteSettle(ok) ==
    /\ exec.pc = "await"
    /\ exec' = [exec EXCEPT !.pc = AwaitCommand(CommandWithTimeout(ok)),
                            !.out = CommandWithTimeout(ok)]
    /\ deviceId' = IF AwaitCommand(CommandWithTimeout(ok)) = "failed"
                   THEN DeviceAfterError(deviceId)
                   ELSE deviceId
    /\ UNCHANGED <<currentRound, shots, hostFs, deviceFile, started>>

\* The caller has received the return or the error.
ExecuteReturn ==
    /\ exec.pc \in {"returned", "failed"}
    /\ exec' = IdleExec
    /\ UNCHANGED <<deviceId, currentRound, shots, hostFs, deviceFile, started>>

----------------------------------------------------------------------------
(* Specifications *)

\* The operator as constructed: round 0, nothing in progress.  The working
\* directory and the device hold whatever earlier processes left there.
Init ==
    /\ deviceId \in DeviceIds
    /\ currentRound = 0
    /\ shots = [c \in Callers |-> IdleShot]
    /\ exec = IdleExec
    /\ \E n \in {0, MaxRound}, legacy \in BOOLEAN :
           hostFs = [p \in HostPaths |->
                        IF p = ReadPath
                        THEN IF legacy THEN OldFile(p) ELSE NoFile
                        ELSE IF p[2] <= n THEN OldFile(p) ELSE NoFile]
    /\ deviceFile \in {NoFile, <<"dev", 0>>}
    /\ started = 0

NextShot ==
    \E c \in Callers :
        \/ ScreenshotStart(c)
        \/ \E ok \in BOOLEAN : ScreencapSettle(c, ok)
        \/ \E ok \in BOOLEAN : PullSettle(c, ok)
        \/ DecodeSettle(c)
        \/ ScreenshotReturn(c)

\* The requests of the full system: one of each way through the switch.
CoreParams ==
    {p \in Params :
        /\ p.screen = <<1080, 1920>>
        /\ p.start_box = IF p.action_type = "type" THEN UndefinedBox ELSE PointBox(333, 667)
        /\ p.end_box = IF p.action_type = "swipe" THEN PointBox(500, 500) ELSE UndefinedBox
        /\ p.content = IF p.action_type = "type" THEN <<"a">> ELSE Undefined}

NextExecute ==
    \/ \E p \in Params : ExecuteStart(p)
    \/ \E ok \in BOOLEAN : ExecuteSettle(ok)
    \/ ExecuteReturn

Next ==
    \/ NextShot
    \/ \E p \in CoreParams : ExecuteStart(p)
    \/ \E ok \in BOOLEAN : ExecuteSettle(ok)
    \/ ExecuteReturn

\* Overlapping screenshot() calls and execute() calls on one instance.
Spec == Init /\ [][Next]_vars

\* A caller that awaits each screenshot() call before making the next one,
\* with execute() calls in between and alongside.
NextSeq ==
    \/ \E c \in Callers :
          \/ (\A d \in Callers : shots[d].pc = "idle") /\ ScreenshotStart(c)
          \/ \E ok \in BOOLEAN : ScreencapSettle(c, ok)
          \/ \E ok \in BOOLEAN : PullSettle(c, ok)
          \/ DecodeSettle(c)
          \/ ScreenshotReturn(c)
    \/ \E p \in CoreParams : ExecuteStart(p)
    \/ \E ok \in BOOLEAN : ExecuteSettle(ok)
    \/ ExecuteReturn

SpecSeq == Init /\ [][NextSeq]_vars

\* execute() calls alone, over every request.
SpecExec == Init /\ [][NextExecute]_vars

----------------------------------------------------------------------------
(* Properties of the screenshot pipeline *)

InProgress(c) == shots[c].pc \in {"screencap", "pull", "decode"}

\* C1: when two screenshot() calls overlap, each call pulls to and decodes
\* the file named by the round number it obtained when it started, so the
\* two calls never pull to, or decode, the same local file.
C1_OverlappingCallsUseOwnRound ==
    \A c \in Callers :
        /\ shots[c].pullPath \in {NoPath, <<"./uitars_screenshot_", shots[c].round>>}
        /\ shots[c].readPath \in {NoPath, <<"./uitars_screenshot_", shots[c].round>>}
        /\ \A d \in Callers \ {c} :
              InProgress(c) /\ InProgress(d) /\ shots[c].pullPath # NoPath
                  => /\ shots[c].pullPath # shots[d].pullPath
                     /\ shots[c].readPath = NoPath \/ shots[c].readPath # shots[d].readPath

\* C2: a screenshot() call all of whose commands failed or timed out does
\* not return a result, whatever the working directory held.
C2_AllCommandsFailedThrows ==
    \A c \in Callers :
        shots[c].cap = "fail" /\ shots[c].pull = "fail"
            => shots[c].pc # "done" /\ shots[c].result = NoResult

\* C3: a screenshot() call one of whose two commands failed, the other
\* succeeding, does not return a result.
C3_OneCommandFailedThrows ==
    \A c \in Callers :
        \/ shots[c].cap = "fail" /\ shots[c].pull = "ok"
        \/ shots[c].cap = "ok" /\ shots[c].pull = "fail"
        => shots[c].pc # "done" /\ shots[c].result = NoResult

\* C4: the base64 text a successful screenshot() call returns is that of the
\* per-round file the call decoded for the width and height.
C4_ReturnsBytesOfDecodedFile ==
    \A c \in Callers :
        shots[c].pc = "done" => shots[c].result.base64 = <<"base64", shots[c].decoded>>

\* C5: when screenshot() calls do not overlap, the k-th call pulls to and
\* decodes the file named by round k, whether or not earlier calls failed.
C5_SequentialCallsUseRoundK ==
    \A c \in Callers :
        /\ shots[c].pc # "idle" => shots[c].round = shots[c].k
        /\ shots[c].pullPath \in {NoPath, <<"./uitars_screenshot_", shots[c].k>>}
        /\ shots[c].readPath \in {NoPath, <<"./uitars_screenshot_", shots[c].k>>}
        /\ Len(shots[c].cmds) = 2
              => shots[c].cmds[2].args[2] = <<"./uitars_screenshot_", shots[c].k>>

\* The second call has pulled to and is decoding the file of round 2, after
\* a first call that failed (nothing to read at 'uitars_screenshot.png').
C5_Witness ==
    \E c \in Callers :
        /\ shots[c].k = 2
        /\ shots[c].pc = "decode"
        /\ shots[c].readPath = <<"./uitars_screenshot_", 2>>
        /\ hostFs[ReadPath] = NoFile

----------------------------------------------------------------------------
(* Properties of the action dispatcher *)

\* n is the nearest integer to the fraction v, halves upward.
IsNearest(n, v) == (2 * n - 1) * v[2] <= 2 * v[1] /\ 2 * v[1] < (2 * n + 1) * v[2]

\* What the Coordinate Mapper resolves a box field of the request to.
Resolve(box, p) == ParseBoxToScreenCoords(box, p.screen[1], p.screen[2])
ResolvesToPair(box, p) == Resolve(box, p).x # Null /\ Resolve(box, p).y # Null

Called == exec.pc # "idle"

\* C6: a swipe issues a command iff start_box and end_box both resolve to
\* non-null pairs; then exactly one swipe command with the four rounded
\* coordinates and the duration 300, otherwise no command.
C6_SwipeIffBothResolve ==
    Called /\ exec.params.action_type = "swipe" =>
        LET p == exec.params IN
        IF ResolvesToPair(p.start_box, p) /\ ResolvesToPair(p.end_box, p)
        THEN /\ Len(exec.cmds) = 1
             /\ exec.cmds[1].op = "swipe"
             /\ Len(exec.cmds[1].args) = 5
             /\ IsNearest(exec.cmds[1].args[1], Resolve(p.start_box, p).x)
             /\ IsNearest(exec.cmds[1].args[2], Resolve(p.start_box, p).y)
             /\ IsNearest(exec.cmds[1].args[3], Resolve(p.end_box, p).x)
             /\ IsNearest(exec.cmds[1].args[4], Resolve(p.end_box, p).y)
             /\ exec.cmds[1].args[5] = 300
        ELSE exec.cmds = <<>> /\ exec.pc = "returned"

\* A swipe from a point to the centre of a box has been issued and has
\* settled: one command, the four rounded coordinates and 300.
C6_Witness ==
    /\ Called
    /\ exec.params.action_type = "swipe"
    /\ exec.params.start_box = PointBox(333, 667)
    /\ exec.params.end_box = CornerBox(500, 250, 501, 1000)
    /\ exec.params.screen = <<1000, 2000>>
    /\ exec.pc = "returned"
    /\ exec.cmds[1].args = <<333, 1334, 501, 1250, 300>>

\* C7: a click issues exactly one tap command at the rounded coordinates
\* resolved from start_box when they are non-null, and otherwise issues no
\* command and returns.
C7_ClickTapsRoundedPoint ==
    Called /\ exec.params.action_type = "click" =>
        LET p == exec.params IN
        IF ResolvesToPair(p.start_box, p)
        THEN /\ Len(exec.cmds) = 1
             /\ exec.cmds[1].op = "tap"
             /\ Len(exec.cmds[1].args) = 2
             /\ IsNearest(exec.cmds[1].args[1], Resolve(p.start_box, p).x)
             /\ IsNearest(exec.cmds[1].args[2], Resolve(p.start_box, p).y)
        ELSE exec.cmds = <<>> /\ exec.pc = "returned"

\* The click at the centre of a box whose x centre is half a pixel off: the
\* tap is at the rounded point.
C7_Witness ==
    /\ Called
    /\ exec.params.action_type = "click"
    /\ exec.params.start_box = CornerBox(500, 250, 501, 1000)
    /\ exec.params.screen = <<1000, 2000>>
    /\ exec.pc = "returned"
    /\ exec.cmds[1].args = <<501, 1250>>

HasText(content) ==
    content # Undefined /\ \E i \in 1..Len(content) : content[i] # " "

\* C8: type issues exactly one text-input command when the content has a
\* character other than white space, and none when the content is absent,
\* empty or white space only, whatever start_box is.
C8_TypeIffContent ==
    Called /\ exec.params.action_type = "type" =>
        IF HasText(exec.params.content)
        THEN Len(exec.cmds) = 1 /\ exec.cmds[1].op = "text"
        ELSE exec.cmds = <<>> /\ exec.pc = "returned"

\* White space with an unresolvable start_box has returned with no command.
C8_Witness ==
    /\ Called
    /\ exec.params.action_type = "type"
    /\ exec.params.content = <<" ", " ">>
    /\ exec.params.start_box = MalformedBox
    /\ exec.pc = "returned"
    /\ exec.cmds = <<>>

IsSpecial(ch) == ch \in {"'", "\"", "\\"}
SpecialsBefore(t, i) == Cardinality({j \in 1..i : IsSpecial(t[j])})

\* The text with the backslash before each escaped character taken away.
RECURSIVE Unescape(_)
Unescape(s) ==
    IF s = <<>> THEN <<>>
    ELSE IF Head(s) = "\\" /\ Len(s) >= 2 THEN <<s[2]>> \o Unescape(SubSeq(s, 3, Len(s)))
    ELSE <<Head(s)>> \o Unescape(Tail(s))

\* C9: the text the text-input command carries is the trimmed content with
\* one backslash before each quote and backslash and every other character
\* as it was, in order; taking the added backslashes away gives the trimmed
\* content.
C9_EscapedContent ==
    Called /\ exec.params.action_type = "type" /\ exec.cmds # <<>> =>
        LET t == Trim(exec.params.content)
            carried == exec.cmds[1].args[1]
        IN  /\ Len(carried) = Len(t) + SpecialsBefore(t, Len(t))
            /\ \A i \in 1..Len(t) :
                  /\ carried[i + SpecialsBefore(t, i)] = t[i]
                  /\ IsSpecial(t[i]) => carried[i + SpecialsBefore(t, i) - 1] = "\\"
            /\ Unescape(carried) = t

\* A quote between two letters is carried with a backslash before it.
C9_Witness ==
    /\ Called
    /\ exec.params.action_type = "type"
    /\ exec.params.content = <<"a", "'", "a">>
    /\ exec.cmds # <<>>
    /\ exec.cmds[1].args[1] = <<"a", "\\", "'", "a">>

SupportedActions == {"click", "type", "swipe"}

\* C10: execute() with an action type other than click, type and swipe
\* issues no command and returns with no error, and changes nothing a later
\* execute() or screenshot() call depends on.
C10_UnsupportedIsNoOp ==
    [][exec.pc = "idle" /\ exec'.pc # "idle"
            /\ exec'.params.action_type \notin SupportedActions
        => /\ exec'.pc = "returned"
           /\ exec'.cmds = <<>>
           /\ UNCHANGED <<deviceId, currentRound, shots, hostFs, deviceFile, started>>]_vars

\* An unsupported action has returned, and a screenshot() call started after
\* it has returned a result.
C10_Witness ==
    /\ exec.pc = "returned"
    /\ exec.params.action_type \notin SupportedActions
    /\ exec.cmds = <<>>
    /\ \E c \in Callers : shots[c].pc = "done" /\ shots[c].k > exec.at

----------------------------------------------------------------------------
(* Properties of failure and of the state a call leaves *)

\* C11: execute() ends in a failure handed to its caller when the command
\* it issued for a click, type or swipe fails or times out, and only then:
\* a call that issues no command returns.
C11_ExecuteFailsIffCommandFails ==
    /\ exec.out = "fail" => exec.pc = "failed"
    /\ exec.pc = "failed" =>
          /\ exec.out = "fail"
          /\ Len(exec.cmds) = 1
          /\ exec.params.action_type \in SupportedActions
    /\ Called /\ exec.cmds = <<>> => exec.pc = "returned"
    /\ exec.out = "ok" => exec.pc = "returned"

\* The text-input command of a type action has failed and execute() has
\* thrown.
C11_Witness ==
    /\ exec.pc = "failed"
    /\ exec.params.action_type = "type"
    /\ exec.cmds # <<>>
    /\ exec.out = "fail"

\* C12: commandWithTimeout never throws: wherever the operator awaits it, a
\* failed or timed-out command comes back as a result, so no execute() call
\* is ended by an exception out of the command it awaits.
C12_RunnerNeverThrows ==
    exec.out = "fail" => exec.pc = "returned"

\* C13: the steps of one screenshot() call are serial: the round counter
\* is incremented before the capture command is issued, the capture command
\* has settled before the pull command is issued, the pull command has
\* settled before the decode starts, and the decode has settled before the
\* bytes are read; a call is at one step at a time.
C13_StepsAreSerial ==
    \A c \in Callers :
        LET s == shots[c] IN
        /\ s.pc = "idle" => s = IdleShot
        /\ s.pc # "idle" =>
              /\ 1 <= s.round /\ s.round <= currentRound
              /\ Len(s.cmds) >= 1 /\ s.cmds[1].op = "screencap"
        /\ s.pc = "screencap" =>
              /\ Len(s.cmds) = 1
              /\ s.cap = "none" /\ s.pull = "none"
              /\ s.pullPath = NoPath /\ s.readPath = NoPath
              /\ s.decoded = NoFile /\ s.result = NoResult
        /\ s.pc = "pull" =>
              /\ s.cap # "none"
              /\ Len(s.cmds) = 2 /\ s.cmds[2].op = "pull"
              /\ s.pull = "none" /\ s.readPath = NoPath
              /\ s.decoded = NoFile /\ s.result = NoResult
        /\ s.pc = "decode" =>
              /\ s.cap # "none" /\ s.pull # "none"
              /\ Len(s.cmds) = 2
              /\ s.readPath # NoPath
              /\ s.decoded = NoFile /\ s.result = NoResult
        /\ s.pc \in {"done", "failed"} =>
              s.cap # "none" /\ s.pull # "none" /\ s.readPath # NoPath
        /\ s.result # NoResult => s.pc = "done" /\ s.decoded # NoFile

\* A call has gone through every step and returned a result.
C13_Witness ==
    \E c \in Callers :
        /\ shots[c].pc = "done"
        /\ shots[c].cap = "ok" /\ shots[c].pull = "ok"
        /\ Len(shots[c].cmds) = 2
        /\ shots[c].decoded = <<"cap", shots[c].k>>
        /\ shots[c].result # NoResult

\* A screenshot() call starts in this step.
ScreenshotStarts == \E c \in Callers : shots[c].pc = "idle" /\ shots'[c].pc # "idle"

\* C14: the round counter equals the number of screenshot() calls started
\* so far, failed ones included: it starts at 0, a step changes it only by
\* starting a screenshot() call, which adds exactly 1, it never decreases,
\* and no step of execute() changes it.
C14_RoundCountsScreenshots ==
    /\ currentRound = 0
    /\ [](currentRound = started)
    /\ [][/\ ScreenshotStarts => currentRound' = currentRound + 1
          /\ ~ScreenshotStarts => currentRound' = currentRound
          /\ exec' # exec => currentRound' = currentRound]_vars

\* Two screenshot() calls have been started, the first has failed, and an
\* execute() call made after them has issued its command and returned.
C14_Witness ==
    /\ currentRound = 2
    /\ hostFs[ReadPath] = NoFile
    /\ \E c \in Callers : shots[c].k = 2 /\ shots[c].pc = "failed"
    /\ exec.pc = "returned" /\ exec.cmds # <<>> /\ exec.at = 2


\* C15: the device handle bound at construction is never changed by a step
\* of screenshot() or of execute(), whether the step succeeds or fails, and
\* every command that either operation has issued names exactly that handle.
C15_DeviceHandleIsFixed ==
    /\ deviceId \in DeviceIds
    /\ [](/\ \A c \in Callers : \A i \in 1..Len(shots[c].cmds) :
                shots[c].cmds[i].dev = deviceId
          /\ \A i \in 1..Len(exec.cmds) : exec.cmds[i].dev = deviceId)
    /\ [][deviceId' = deviceId]_vars

\* A failed screenshot() call that issued both its commands, a completed one,
\* and a failed execute() call that issued its command.
C15_Witness ==
    /\ \E c \in Callers : shots[c].pc = "failed" /\ Len(shots[c].cmds) = 2
    /\ \E c \in Callers : shots[c].pc = "done" /\ Len(shots[c].cmds) = 2
    /\ exec.pc = "failed"
    /\ Len(exec.cmds) = 1

\* C16: every screenshot() call issues exactly two commands, the capture
\* command and then the pull command, whatever their outcomes: a call whose
\* capture command failed has issued its pull command all the same, and a
\* call whose pull command failed has gone on to decode the per-round file.
C16_TwoCommandsWhateverOutcome ==
    \A c \in Callers :
        LET s == shots[c]
        IN  /\ Len(s.cmds) <= 2
            /\ s.cap # "none" =>
                  /\ Len(s.cmds) = 2
                  /\ s.cmds[1].op = "screencap"
                  /\ s.cmds[2].op = "pull"
            /\ s.pc \in {"done", "failed"} => s.cap # "none" /\ s.pull # "none"
            /\ s.pull # "none" =>
                  /\ s.pc \in {"decode", "done", "failed"}
                  /\ \E r \in Rounds : s.readPath = LocalPath(r)

\* A call whose capture and pull commands both failed, which issued both and
\* attempted the decode.
C16_Witness ==
    \E c \in Callers :
        /\ shots[c].cap = "fail"
        /\ shots[c].pull = "fail"
        /\ Len(shots[c].cmds) = 2
        /\ shots[c].readPath # NoPath
        /\ shots[c].pc = "failed"

\* A step in which a screenshot() call or the execute() call fails.
CallFails ==
    \/ \E c \in Callers : shots[c].pc # "failed" /\ shots'[c].pc = "failed"
    \/ exec.pc # "failed" /\ exec'.pc = "failed"

\* C17: a failed screenshot() or execute() call leaves no failed mode on the
\* instance.  The step in which a call fails changes neither the device
\* handle nor the round counter; whatever calls failed before, a screenshot()
\* call ends with a ScreenshotResult exactly when the per-round file decodes
\* and the fixed file is read; and an execute() call issues exactly the
\* commands its own request and the handle bound at construction determine.
C17_FailureLeavesNoMode ==
    /\ [][CallFails => deviceId' = deviceId /\ currentRound' = currentRound]_vars
    /\ [][\A c \in Callers :
            shots[c].pc = "decode" /\ shots'[c].pc # "decode" =>
                ((shots'[c].pc = "done" /\ shots'[c].result # NoResult)
                    <=> (hostFs[shots[c].readPath] # NoFile /\ hostFs[ReadPath] # NoFile))]_vars
    /\ [](exec.pc # "idle" =>
            \E d \in DeviceIds : exec.cmds = Dispatch(exec.params, d))

\* The first screenshot() call failed (its file never came to exist and the
\* second call started only after it ended); the second call, all of whose
\* steps succeeded, returned a result, and an execute() call started after
\* the failure issued its command and returned.
C17_Witness ==
    /\ hostFs[LocalPath(1)] = NoFile
    /\ \E c \in Callers :
          /\ shots[c].k = 2
          /\ shots[c].cap = "ok"
          /\ shots[c].pull = "ok"
          /\ shots[c].pc = "done"
          /\ shots[c].result # NoResult
    /\ exec.at = 2
    /\ exec.pc = "returned"
    /\ exec.cmds # <<>>
=============================================================================
